---- MODULE Spec2Model ----
(***************************************************************************)
(* InstallShield v5/v6 cabinet extractor (tools/isextract.py).             *)
(*                                                                         *)
(* The model follows one run of main(): ISCabinet.__init__ parses the      *)
(* header buffer stage by stage, then extract_all walks the catalog and    *)
(* routes every file to the chunked decompressor or the loose-file         *)
(* resolver.  Buffers are sequences of bytes (0..255), strings are         *)
(* sequences of character codes, the file system is a sequence of entries  *)
(* (the order is the order os.listdir reports).                            *)
(***************************************************************************)
EXTENDS Integers, Sequences, FiniteSets, TLC

VARIABLES
    hdr_data,        \* self.hdr_data: the header file, read whole
    cab_data,        \* the bytes of the data file behind the handle `cab`
    setup_dir,       \* self.setup_dir = os.path.dirname(hdr_path)
    include_loose,   \* the include_loose argument of extract_all
    fs,              \* the file system: entries [path, kind, data]
    pc,              \* the position of the run
    exc,             \* the exception that ended the run, or "none"
    common,          \* self.common (CommonHeader) or None
    major_version,   \* self.major_version, Unset before line 148
    cab_desc,        \* self.cab_desc (CabDescriptor) or None
    file_table,      \* self.file_table
    directories,     \* self.directories
    files,           \* self.files
    file_groups,     \* self.file_groups
    idx,             \* position of `for fd in self.files` (1-based)
    counts,          \* extracted, skipped, errors, loose_copied, loose_missing
    cab_pos,         \* the position of the shared handle `cab`
    total_written,   \* _extract_compressed: total_written
    md5_ctx,         \* _extract_compressed: the message fed to md5_ctx
    out_path,        \* the output path of the file being handled
    warnings,        \* the WARNING lines printed: [file, kind]
    log              \* one entry per file the loop has finished: [file, what]

vars == <<hdr_data, cab_data, setup_dir, include_loose, fs, pc, exc, common,
          major_version, cab_desc, file_table, directories, files, file_groups, idx, counts,
          cab_pos, total_written, md5_ctx, out_path, warnings, log>>

-----------------------------------------------------------------------------
(* Program constants                                                       *)

CAB_SIGNATURE == 677598025        \* 0x28635349
COMMON_HEADER_SIZE == 20
MAX_FILE_GROUP_COUNT == 71
MAX_COMPONENT_COUNT == 71
FILE_SPLIT == 1
FILE_COMPRESSED == 4
FILE_INVALID == 8
SIZE_V5 == 58                     \* 0x3A
SEP == 47                         \* os.sep, "/"
BACKSLASH == 92                   \* "\\"

None == [none |-> TRUE]
Fail == -1                        \* a read that raised
Unset == -1                       \* an attribute not assigned yet

-----------------------------------------------------------------------------
(* Byte-level reads: struct.unpack_from and bytes.index                    *)

\* struct.unpack_from('<H', data, off): struct.error past the buffer end
ReadU16(data, off) ==
    IF off + 2 > Len(data) THEN Fail
    ELSE data[off + 1] + 256 * data[off + 2]

\* struct.unpack_from('<I', data, off)
ReadU32(data, off) ==
    IF off + 4 > Len(data) THEN Fail
    ELSE data[off + 1] + 256 * data[off + 2] + 65536 * data[off + 3]
         + 16777216 * data[off + 4]

\* data[a:b] of Python: clipped to the buffer, never an error
Slice(data, a, b) ==
    LET lo == IF a > Len(data) THEN Len(data) ELSE a
        hi == IF b > Len(data) THEN Len(data) ELSE b
    IN  IF hi <= lo THEN <<>> ELSE SubSeq(data, lo + 1, hi)

\* data.index(b'\x00', start): the 0-based index of the first zero byte at or
\* after start, Fail (ValueError) when there is none
IndexZero(data, start) ==
    LET hits == {i \in start .. Len(data) - 1 : data[i + 1] = 0}
    IN  IF hits = {} THEN Fail
        ELSE CHOOSE i \in hits : \A j \in hits : i <= j

\* bytes.decode('ascii', errors='replace'): a byte above 127 becomes U+FFFD
DecodeAscii(bytes) ==
    [i \in 1 .. Len(bytes) |-> IF bytes[i] < 128 THEN bytes[i] ELSE 65533]

\* the body of _read_string and of the group-name read, from an absolute offset
\* [ok |-> FALSE] stands for the ValueError of index()
ReadCString(data, abs_offset) ==
    LET end == IndexZero(data, abs_offset)
    IN  IF end = Fail THEN [ok |-> FALSE, s |-> <<>>]
        ELSE [ok |-> TRUE, s |-> DecodeAscii(Slice(data, abs_offset, end))]

-----------------------------------------------------------------------------
(* Strings and paths (posixpath)                                           *)

\* str.lower() on ASCII
LowerChar(c) == IF c >= 65 /\ c <= 90 THEN c + 32 ELSE c
Lower(s) == [i \in 1 .. Len(s) |-> LowerChar(s[i])]

\* s.replace('\\', os.sep)
ReplaceBackslash(s) ==
    [i \in 1 .. Len(s) |-> IF s[i] = BACKSLASH THEN SEP ELSE s[i]]

\* os.path.join(a, b): an absolute b discards a
Join(a, b) ==
    IF b # <<>> /\ b[1] = SEP THEN b
    ELSE IF a = <<>> \/ a[Len(a)] = SEP THEN a \o b
    ELSE a \o <<SEP>> \o b

LastSep(p) ==
    LET hits == {i \in 1 .. Len(p) : p[i] = SEP}
    IN  IF hits = {} THEN 0 ELSE CHOOSE i \in hits : \A j \in hits : j <= i

RECURSIVE RStripSep(_)
RStripSep(p) ==
    IF p # <<>> /\ p[Len(p)] = SEP THEN RStripSep(SubSeq(p, 1, Len(p) - 1))
    ELSE p

\* os.path.dirname: the head up to the last separator, trailing separators
\* stripped unless the head is only separators
Dirname(p) ==
    LET head == SubSeq(p, 1, LastSep(p))
    IN  IF RStripSep(head) = <<>> THEN head ELSE RStripSep(head)

\* os.path.basename
Basename(p) == SubSeq(p, LastSep(p) + 1, Len(p))

-----------------------------------------------------------------------------
(* The file system: os.path.isfile / isdir, os.listdir, os.makedirs, open  *)

\* the entry a path names: trailing separators do not change the entry
Canon(p) == IF RStripSep(p) = <<>> THEN p ELSE RStripSep(p)

HasEntry(f, p, k) == \E i \in 1 .. Len(f) : f[i].path = p /\ f[i].kind = k

\* os.path.isfile: a path ending in a separator never names a regular file
IsFile(f, p) ==
    /\ p # <<>>
    /\ p[Len(p)] # SEP
    /\ HasEntry(f, p, "file")

\* os.path.isdir: isdir('') is False
IsDir(f, p) == p # <<>> /\ (Canon(p) = <<SEP>> \/ HasEntry(f, Canon(p), "dir"))

RECURSIVE SelectNames(_, _, _)
SelectNames(f, d, i) ==
    IF i > Len(f) THEN <<>>
    ELSE IF f[i].path # d /\ Dirname(f[i].path) = d
              /\ Basename(f[i].path) # <<>>
         THEN <<Basename(f[i].path)>> \o SelectNames(f, d, i + 1)
         ELSE SelectNames(f, d, i + 1)

\* os.listdir(d): the names of the entries of d, in the order the system
\* reports them
ListDir(f, d) == SelectNames(f, Canon(d), 1)

\* the path itself and every ancestor that os.makedirs has to find or create
Ancestors(p) ==
    LET c == Canon(p)
        cuts == {i \in 2 .. Len(c) : c[i] = SEP /\ c[i - 1] # SEP} \cup {Len(c) + 1}
    IN  {SubSeq(c, 1, i - 1) : i \in cuts}

\* os.makedirs(p, exist_ok=True) raises when p is empty or when p or one of its
\* ancestors exists and is not a directory
MakeDirsFails(f, p) ==
    \/ p = <<>>
    \/ \E a \in Ancestors(p) : HasEntry(f, a, "file")

RECURSIVE AddDirs(_, _, _)
AddDirs(f, c, i) ==
    IF i > Len(c) + 1 THEN f
    ELSE IF (i = Len(c) + 1 \/ (c[i] = SEP /\ i > 1 /\ c[i - 1] # SEP))
              /\ ~ IsDir(f, SubSeq(c, 1, i - 1))
         THEN AddDirs(Append(f, [path |-> SubSeq(c, 1, i - 1), kind |-> "dir",
                                 data |-> <<>>]), c, i + 1)
         ELSE AddDirs(f, c, i + 1)

\* the file system after a successful os.makedirs(p, exist_ok=True)
MakeDirs(f, p) == AddDirs(f, Canon(p), 1)

\* open(p, 'wb') raises for a directory, for a path ending in a separator and
\* for a missing parent directory
OpenWriteFails(f, p) ==
    \/ p = <<>>
    \/ p[Len(p)] = SEP
    \/ HasEntry(f, p, "dir")
    \/ (Dirname(p) # <<>> /\ ~ IsDir(f, Dirname(p)))

\* open(p, 'wb'): the file is created, or truncated when it exists
OpenWrite(f, p) ==
    IF HasEntry(f, p, "file")
    THEN [i \in 1 .. Len(f) |->
             IF f[i].path = p THEN [f[i] EXCEPT !.data = <<>>] ELSE f[i]]
    ELSE Append(f, [path |-> p, kind |-> "file", data |-> <<>>])

\* out.write(bytes) on the open file p
WriteBytes(f, p, bytes) ==
    [i \in 1 .. Len(f) |->
        IF f[i].path = p /\ f[i].kind = "file"
        THEN [f[i] EXCEPT !.data = @ \o bytes] ELSE f[i]]

\* the bytes of the regular file p
FileData(f, p) ==
    LET i == CHOOSE i \in 1 .. Len(f) : f[i].path = p /\ f[i].kind = "file"
    IN  f[i].data

-----------------------------------------------------------------------------
(* zlib.decompress(chunk, -15) and hashlib.md5                             *)

\* Raw deflate, as far as stored blocks go: a block header byte (bit 0 =
\* BFINAL, bits 1-2 = BTYPE), for BTYPE 0 the lengths LEN and NLEN = ~LEN and
\* LEN literal bytes; BTYPE 3 is reserved and rejected; input that ends before
\* the final block ends is rejected; bytes after the final block are ignored.
\* The Huffman block types 1 and 2 are outside the inputs enumerated here.
RECURSIVE InflateFrom(_, _, _)
InflateFrom(data, pos, acc) ==
    IF pos > Len(data) THEN [ok |-> FALSE, bytes |-> <<>>]
    ELSE LET bfinal == data[pos] % 2
             btype == (data[pos] \div 2) % 4
             len == data[pos + 1] + 256 * data[pos + 2]
             nlen == data[pos + 3] + 256 * data[pos + 4]
         IN  IF btype # 0 THEN [ok |-> FALSE, bytes |-> <<>>]
             ELSE IF pos + 4 > Len(data) THEN [ok |-> FALSE, bytes |-> <<>>]
             ELSE IF len + nlen # 65535 THEN [ok |-> FALSE, bytes |-> <<>>]
             ELSE IF pos + 4 + len > Len(data) THEN [ok |-> FALSE, bytes |-> <<>>]
             ELSE IF bfinal = 1
                  THEN [ok |-> TRUE,
                        bytes |-> acc \o SubSeq(data, pos + 5, pos + 4 + len)]
                  ELSE InflateFrom(data, pos + 5 + len,
                                   acc \o SubSeq(data, pos + 5, pos + 4 + len))

Inflate(chunk) == InflateFrom(chunk, 1, <<>>)

RECURSIVE Mix(_, _, _)
Mix(msg, i, h) ==
    IF i > Len(msg) THEN h ELSE Mix(msg, i + 1, (h * 33 + msg[i] + 1) % 65521)

\* md5_ctx.digest(): 16 bytes that depend on the whole message fed so far and
\* on nothing else (a stand-in for MD5 with the same interface)
Digest(msg) ==
    LET h == Mix(msg, 1, 5381)
    IN  [k \in 1 .. 16 |-> ((h \div k) + 7 * k) % 256]

ZeroMd5 == [k \in 1 .. 16 |-> 0]      \* b'\x00' * 16

-----------------------------------------------------------------------------
(* Bounds of the enumerated inputs                                         *)

MaxDirs == 2       \* directories in a header
MaxFiles == 2      \* file records in a header
MaxChunks == 2     \* framed items in a data file
MaxCut == 2        \* bytes cut from the end of a data file
MaxSize == 3       \* largest expanded_size of the descriptor under test

-----------------------------------------------------------------------------
(* Input builders: well-formed and damaged headers, data files, loose files *)

LE16(v) == <<v % 256, (v \div 256) % 256>>
LE32(v) == <<v % 256, (v \div 256) % 256, (v \div 65536) % 256,
             (v \div 16777216) % 256>>
Zeros(n) == [i \in 1 .. n |-> 0]

RECURSIVE Flatten(_)
Flatten(ss) == IF ss = <<>> THEN <<>> ELSE Head(ss) \o Flatten(Tail(ss))

\* the cabinet descriptor: the slots at +0x15A end it
DescSize == 346 + 4 * MAX_COMPONENT_COUNT
DescOffset == COMMON_HEADER_SIZE

\* a descriptor whose file table follows it: file_table_offset at +0x0C,
\* directory_count at +0x1C, file_count at +0x28, file-group slot 0 (g0) at
\* +0x3E, every other byte zero
DescTail == Zeros(DescSize - 66)
DescBytes(dc, fc, g0) ==
    Zeros(12) \o LE32(DescSize) \o Zeros(12) \o LE32(dc) \o Zeros(8)
    \o LE32(fc) \o Zeros(18) \o LE32(g0) \o DescTail

\* the 58-byte file record of FileDescriptor's layout
RecordBytes(f, name_off) ==
    LE32(name_off) \o LE16(f.di) \o Zeros(2) \o LE16(f.flags) \o LE32(f.es)
    \o LE32(0) \o Zeros(20) \o LE32(f.off) \o f.md5

RECURSIVE DirsLen(_, _)
DirsLen(dirs, k) ==
    IF k = 0 THEN 0 ELSE DirsLen(dirs, k - 1) + Len(dirs[k]) + 1

RECURSIVE FilesLen(_, _)
FilesLen(fl, k) ==
    IF k = 0 THEN 0 ELSE FilesLen(fl, k - 1) + Len(fl[k].name) + 1 + SIZE_V5

\* the file-table area: the table, the directory names, then each file's name
\* and record; all offsets are relative to the start of the table
AreaBytes(dirs, fl) ==
    LET n == Len(dirs) + Len(fl)
        fbase(k) == 4 * n + DirsLen(dirs, Len(dirs)) + FilesLen(fl, k - 1)
    IN  Flatten([k \in 1 .. Len(dirs) |-> LE32(4 * n + DirsLen(dirs, k - 1))])
        \o Flatten([k \in 1 .. Len(fl) |-> LE32(fbase(k) + Len(fl[k].name) + 1)])
        \o Flatten([k \in 1 .. Len(dirs) |-> dirs[k] \o <<0>>])
        \o Flatten([k \in 1 .. Len(fl) |->
                       fl[k].name \o <<0>> \o RecordBytes(fl[k], fbase(k))])

\* one file group "G" covering files 0..0: its offset list, name and descriptor,
\* at offset rel from the cabinet descriptor
GroupBytes(rel) ==
    LE32(rel + 12) \o LE32(rel + 14) \o LE32(0) \o <<71, 0>>
    \o Zeros(76) \o LE32(0) \o LE32(0)

\* 0x01005000, the version field of a v5 header
HeaderVersion == 16797696

HeaderBytes(dirs, fl, magic, group) ==
    LET area == AreaBytes(dirs, fl)
        rel == DescSize + Len(area)
    IN  LE32(magic) \o LE32(HeaderVersion) \o LE32(0) \o LE32(DescOffset)
        \o LE32(DescSize)
        \o DescBytes(Len(dirs), Len(fl), IF group THEN rel ELSE 0)
        \o area
        \o (IF group THEN GroupBytes(rel) ELSE <<>>)

\* a stored deflate block holding p, and its 2-byte length prefix
Stored(p) == <<1>> \o LE16(Len(p)) \o LE16(65535 - Len(p)) \o p
Frame(p) == LE16(Len(Stored(p))) \o Stored(p)

\* what a data file is made of: framed chunks of a payload, a frame whose
\* block type is reserved, a zero length
Payloads == {<<>>, <<65>>, <<65, 72>>}
Items == {Frame(p) : p \in Payloads} \cup {LE16(1) \o <<6>>, LE16(0)}

RECURSIVE ItemSeqs(_)
ItemSeqs(n) ==
    IF n = 0 THEN {<<>>}
    ELSE ItemSeqs(n - 1)
         \cup {Append(q, it) : q \in {r \in ItemSeqs(n - 1) : Len(r) = n - 1},
                                it \in Items}

NameLower == <<97>>            \* "a"
NameUpper == <<65>>            \* "A"
NameOfDir == <<100>>           \* "d", also the name of directory 0
NameAbs == <<47, 120>>         \* "/x"
NameOther == <<98>>            \* "b"
Names == {NameLower, NameUpper, NameOfDir, NameAbs}

\* directory k of a header: "d", "e\f", then single letters
DirName(k) ==
    IF k = 1 THEN <<100>> ELSE IF k = 2 THEN <<101, 92, 102>> ELSE <<102 + k>>
DirNames(n) == [k \in 1 .. n |-> DirName(k)]

OutputDir == <<79>>            \* "O", the output_dir argument
SetupDirs == {<<>>, <<83>>}    \* "" (a bare header name) and "S"

Desc(name, di, flags, es, off, md5) ==
    [name |-> name, di |-> di, flags |-> flags, es |-> es, off |-> off,
     md5 |-> md5]

\* a compressed file "b" of directory 0 that reads the data file from offset 0
StdFile == Desc(NameOther, 0, FILE_COMPRESSED, 1, 0, ZeroMd5)

\* n files, the k-th of them f and the others the standard file
FilesWith(n, k, f) == [j \in 1 .. n |-> IF j = k THEN f ELSE StdFile]

DirEntry(p) == [path |-> p, kind |-> "dir", data |-> <<>>]
FileEntry(p, d) == [path |-> p, kind |-> "file", data |-> d]

\* what lies next to the header: nothing, the files in the header's case, in
\* the other case, in both cases, or a directory of the file's name
LooseKinds == {"none", "lower", "upper", "upper_lower", "isdir"}
LooseEntries(kind, base) ==
    LET sub == Join(base, <<100>>)
    IN  CASE kind = "none" -> <<>>
          [] kind = "lower" ->
                <<FileEntry(Join(base, NameLower), <<76>>), DirEntry(sub),
                  FileEntry(Join(sub, NameLower), <<77>>)>>
          [] kind = "upper" ->
                <<FileEntry(Join(base, NameUpper), <<85>>), DirEntry(sub),
                  FileEntry(Join(sub, NameUpper), <<86>>)>>
          [] kind = "upper_lower" ->
                <<FileEntry(Join(base, NameUpper), <<85>>),
                  FileEntry(Join(base, NameLower), <<76>>)>>
          [] kind = "isdir" -> <<DirEntry(Join(base, NameLower))>>

InitialFs(kind, base) ==
    (IF base = <<>> THEN <<>> ELSE <<DirEntry(base)>>) \o LooseEntries(kind, base)

-----------------------------------------------------------------------------
(* The runs considered                                                     *)

FlagSets == {0, FILE_COMPRESSED, FILE_INVALID, FILE_COMPRESSED + FILE_INVALID}
Md5Choices == {ZeroMd5, Digest(<<>>), Digest(<<65>>), Digest(<<65, 65, 72>>)}
GoodCab == Frame(<<65>>)
BadSignature == CAB_SIGNATURE - 1

CutEnd(bytes, c) ==
    IF c >= Len(bytes) THEN <<>> ELSE SubSeq(bytes, 1, Len(bytes) - c)

Run(nd, fl, magic, group, cut, cab, sd, il, lk) ==
    [nd |-> nd, fl |-> fl, magic |-> magic, group |-> group, cut |-> cut,
     cab |-> cab, sd |-> sd, il |-> il, lk |-> lk]

\* routing: one file of every name, directory index and flag combination at
\* every position of a catalog; a loose file also with every neighbourhood
RoutingRuns ==
    {Run(nd, FilesWith(n, k, Desc(nm, di, fg, 1, 0, ZeroMd5)), CAB_SIGNATURE,
         FALSE, 0, GoodCab, <<83>>, il, "none") :
        nd \in 1 .. MaxDirs, n \in 1 .. MaxFiles, k \in 1 .. MaxFiles,
        nm \in Names, di \in 0 .. MaxDirs, fg \in FlagSets, il \in BOOLEAN}
    \cup
    {Run(nd, FilesWith(n, k, Desc(nm, di, 0, 1, 0, ZeroMd5)), CAB_SIGNATURE,
         FALSE, 0, GoodCab, sd, TRUE, lk) :
        nd \in 1 .. MaxDirs, n \in 1 .. MaxFiles, k \in 1 .. MaxFiles,
        nm \in Names \ {NameAbs}, di \in 0 .. MaxDirs,
        sd \in SetupDirs, lk \in LooseKinds}

\* decompression: the first file of a full catalog reads every data file with
\* every expanded_size; every stored checksum and a second data offset go
\* with the data files that are not cut
ChunkRun(es, off, md5, cab) ==
    Run(1, FilesWith(MaxFiles, 1,
                     Desc(NameLower, 0, FILE_COMPRESSED, es, off, md5)),
        CAB_SIGNATURE, FALSE, 0, cab, <<83>>, TRUE, "none")
ChunkRuns ==
    {ChunkRun(es, 0, ZeroMd5, CutEnd(Flatten(q), c)) :
        es \in 0 .. MaxSize, q \in ItemSeqs(MaxChunks), c \in 0 .. MaxCut}
    \cup
    {ChunkRun(es, 0, md5, Flatten(q)) :
        es \in 0 .. MaxSize, q \in ItemSeqs(MaxChunks), md5 \in Md5Choices}
    \cup
    {ChunkRun(es, 8, ZeroMd5, Flatten(q)) :
        es \in 0 .. MaxSize, q \in ItemSeqs(MaxChunks)}

\* header damage: every prefix of a header, with the right and a wrong
\* signature, with and without a file group
HeaderLen == Len(HeaderBytes(DirNames(1), <<StdFile>>, CAB_SIGNATURE, TRUE))
HeaderRuns ==
    {Run(1, <<[StdFile EXCEPT !.md5 = md5]>>, magic, group, cut, GoodCab,
         <<83>>, TRUE, "none") :
        magic \in {CAB_SIGNATURE, BadSignature}, group \in BOOLEAN,
        cut \in 0 .. HeaderLen, md5 \in {ZeroMd5, Digest(<<65>>)}}

Runs == RoutingRuns \cup ChunkRuns \cup HeaderRuns

NoCounts ==
    [extracted |-> 0, skipped |-> 0, errors |-> 0, loose_copied |-> 0,
     loose_missing |-> 0]

\* the version field of a header: v5, v6, and values that tell the nibbles
\* of the field apart (0x01005000, 0x0100600C, 0, 0x0000F000, 0x50001000,
\* 0x7FFFFFFF)
Versions == {HeaderVersion, 16801804, 0, 61440, 1342181376, 2147483647}

\* the one-file header that is given every version
VersionRun ==
    Run(1, <<StdFile>>, CAB_SIGNATURE, FALSE, 0, GoodCab, <<83>>, TRUE, "none")
VersionsOf(r) == IF r = VersionRun THEN Versions ELSE {HeaderVersion}

\* a header with its version field (bytes 4..7) replaced
WithVersion(bytes, v) ==
    IF v = HeaderVersion \/ Len(bytes) < 8 THEN bytes
    ELSE SubSeq(bytes, 1, 4) \o LE32(v) \o SubSeq(bytes, 9, Len(bytes))

\* the state after the arguments are bound: run r with version field v
InitOf(r, v) ==
        /\ hdr_data = WithVersion(
               CutEnd(HeaderBytes(DirNames(r.nd), r.fl, r.magic, r.group), r.cut),
               v)
        /\ cab_data = r.cab
        /\ setup_dir = r.sd
        /\ include_loose = r.il
        /\ fs = InitialFs(r.lk, r.sd)
        /\ pc = "ctor_common"
        /\ exc = "none"
        /\ common = None
        /\ major_version = Unset
        /\ cab_desc = None
        /\ file_table = <<>>
        /\ directories = <<>>
        /\ files = <<>>
        /\ file_groups = <<>>
        /\ idx = 0
        /\ counts = NoCounts
        /\ cab_pos = 0
        /\ total_written = 0
        /\ md5_ctx = <<>>
        /\ out_path = <<>>
        /\ warnings = {}
        /\ log = <<>>

Init == \E r \in Runs : \E v \in VersionsOf(r) : InitOf(r, v)

\* the runs followed to their end: a one-file catalog reading every data
\* file that is not cut with every expanded_size, and a full catalog of a
\* one-directory header with a file of every name, flag combination and
\* neighbourhood at every position
LiveRuns ==
    {Run(1, <<Desc(NameLower, 0, FILE_COMPRESSED, es, 0, ZeroMd5)>>,
         CAB_SIGNATURE, FALSE, 0, Flatten(q), <<83>>, TRUE, "none") :
        es \in 0 .. MaxSize, q \in ItemSeqs(MaxChunks)}
    \cup
    {Run(1, FilesWith(MaxFiles, k, Desc(nm, di, fg, 1, 0, ZeroMd5)),
         CAB_SIGNATURE, FALSE, 0, GoodCab, <<83>>, il, "none") :
        k \in 1 .. MaxFiles, nm \in Names, di \in 0 .. 1, fg \in FlagSets,
        il \in BOOLEAN}
    \cup
    {Run(1, FilesWith(MaxFiles, k, Desc(nm, di, 0, 1, 0, ZeroMd5)),
         CAB_SIGNATURE, FALSE, 0, GoodCab, <<83>>, TRUE, lk) :
        k \in 1 .. MaxFiles, nm \in Names \ {NameAbs}, di \in 0 .. 1,
        lk \in LooseKinds}
    \cup {VersionRun}

LiveInit == \E r \in LiveRuns : InitOf(r, HeaderVersion)

-----------------------------------------------------------------------------
(* ISCabinet.__init__                                                      *)

\* CommonHeader.__init__: one unpack_from of 20 bytes at offset 0
ParseCommonHeader(data) ==
    IF COMMON_HEADER_SIZE > Len(data) THEN None
    ELSE [signature |-> ReadU32(data, 0),
          version |-> ReadU32(data, 4),
          volume_info |-> ReadU32(data, 8),
          cab_descriptor_offset |-> ReadU32(data, 12),
          cab_descriptor_size |-> ReadU32(data, 16)]

\* the major version looked for in the top 4 bits of the field
MajorVersionTopBits(c) == (c.version \div 268435456) % 16

\* CommonHeader.major_version: (version >> 12) & 0xF
MajorVersion(c) == (c.version \div 4096) % 16

\* the signature taken on trust
SignatureUnchecked(c) == TRUE

\* line 142
SignatureMatches(c) == c.signature = CAB_SIGNATURE

\* lines 137-152: a short buffer raises in unpack_from, before the signature
\* is looked at; a wrong signature raises ValueError
CtorCommon ==
    /\ pc = "ctor_common"
    /\ LET c == ParseCommonHeader(hdr_data)
       IN  IF c = None
           THEN /\ pc' = "failed"
                /\ exc' = "struct.error"
                /\ UNCHANGED <<common, major_version>>
           ELSE /\ common' = c
                /\ IF ~ SignatureMatches(c)
                   THEN /\ pc' = "failed"
                        /\ exc' = "InvalidSignature"
                        /\ UNCHANGED major_version
                   ELSE /\ pc' = "ctor_desc"
                        /\ major_version' = MajorVersion(c)
                        /\ UNCHANGED exc
    /\ UNCHANGED <<hdr_data, cab_data, setup_dir, include_loose, fs, cab_desc,
                   file_table, directories, files, file_groups, idx, counts,
                   cab_pos, total_written, md5_ctx, out_path, warnings, log>>

\* CabDescriptor.__init__
ParseCabDescriptor(data, base) ==
    [file_table_offset |-> ReadU32(data, base + 12),
     file_table_size |-> ReadU32(data, base + 20),
     file_table_size2 |-> ReadU32(data, base + 24),
     directory_count |-> ReadU32(data, base + 28),
     file_count |-> ReadU32(data, base + 40),
     file_table_offset2 |-> ReadU32(data, base + 44),
     file_group_offsets |->
         [i \in 1 .. MAX_FILE_GROUP_COUNT |-> ReadU32(data, base + 62 + (i - 1) * 4)],
     component_offsets |->
         [i \in 1 .. MAX_COMPONENT_COUNT |-> ReadU32(data, base + 346 + (i - 1) * 4)]]

CabDescriptorRaised(d) ==
    \/ Fail \in {d.file_table_offset, d.file_table_size, d.file_table_size2,
                 d.directory_count, d.file_count, d.file_table_offset2}
    \/ \E i \in 1 .. MAX_FILE_GROUP_COUNT : d.file_group_offsets[i] = Fail
    \/ \E i \in 1 .. MAX_COMPONENT_COUNT : d.component_offsets[i] = Fail

\* line 155
CtorCabDescriptor ==
    /\ pc = "ctor_desc"
    /\ \E d \in {ParseCabDescriptor(hdr_data, common.cab_descriptor_offset)} :
           IF CabDescriptorRaised(d)
           THEN pc' = "failed" /\ exc' = "struct.error" /\ UNCHANGED cab_desc
           ELSE pc' = "ctor_table" /\ cab_desc' = d /\ UNCHANGED exc
    /\ UNCHANGED <<major_version, hdr_data, cab_data, setup_dir, include_loose, fs, common,
                   file_table, directories, files, file_groups, idx, counts,
                   cab_pos, total_written, md5_ctx, out_path, warnings, log>>

\* self._ft_base, line 160
FtBase == common.cab_descriptor_offset + cab_desc.file_table_offset

\* the table read one entry too far
TotalEntriesOneMore == cab_desc.directory_count + cab_desc.file_count + 1

\* line 163
TotalEntries == cab_desc.directory_count + cab_desc.file_count

\* lines 163-167
CtorFileTable ==
    /\ pc = "ctor_table"
    /\ \E total_entries \in {TotalEntries} :
       \E t \in {[i \in 1 .. total_entries |->
                      ReadU32(hdr_data, FtBase + (i - 1) * 4)]} :
           IF \E i \in 1 .. total_entries : t[i] = Fail
           THEN pc' = "failed" /\ exc' = "struct.error" /\ UNCHANGED file_table
           ELSE pc' = "ctor_dirs" /\ file_table' = t /\ UNCHANGED exc
    /\ UNCHANGED <<major_version, hdr_data, cab_data, setup_dir, include_loose, fs, common,
                   cab_desc, directories, files, file_groups, idx, counts,
                   cab_pos, total_written, md5_ctx, out_path, warnings, log>>

\* _read_string
ReadString(ft_relative_offset) == ReadCString(hdr_data, FtBase + ft_relative_offset)

\* lines 170-173
CtorDirectories ==
    /\ pc = "ctor_dirs"
    /\ \E names \in {[i \in 1 .. cab_desc.directory_count |->
                          ReadString(file_table[i])]} :
           IF \E i \in 1 .. cab_desc.directory_count : ~ names[i].ok
           THEN pc' = "failed" /\ exc' = "ValueError" /\ UNCHANGED directories
           ELSE /\ pc' = "ctor_files"
                /\ directories' = [i \in 1 .. cab_desc.directory_count |-> names[i].s]
                /\ UNCHANGED exc
    /\ UNCHANGED <<major_version, hdr_data, cab_data, setup_dir, include_loose, fs, common,
                   cab_desc, file_table, files, file_groups, idx, counts,
                   cab_pos, total_written, md5_ctx, out_path, warnings, log>>

\* FileDescriptor.__init__: six bounds-checked reads, then a slice for the
\* checksum, which is clipped to the buffer
ParseFileDescriptor(data, offset) ==
    [name_offset |-> ReadU32(data, offset),
     directory_index |-> ReadU16(data, offset + 4),
     flags |-> ReadU16(data, offset + 8),
     expanded_size |-> ReadU32(data, offset + 10),
     compressed_size |-> ReadU32(data, offset + 14),
     data_offset |-> ReadU32(data, offset + 38),
     md5 |-> Slice(data, offset + 42, offset + SIZE_V5)]

FileDescriptorRaised(fd) ==
    Fail \in {fd.name_offset, fd.directory_index, fd.flags, fd.expanded_size,
              fd.compressed_size, fd.data_offset}

\* lines 184-188
ResolveDirectory(directory_index, dirs) ==
    IF directory_index < Len(dirs) THEN dirs[directory_index + 1] ELSE <<>>

\* lines 177-190, one pass of the loop: self.files grows by one record
CtorFile ==
    /\ pc = "ctor_files"
    /\ IF Len(files) >= cab_desc.file_count
       THEN pc' = "ctor_groups" /\ UNCHANGED <<exc, files>>
       ELSE \E i \in {Len(files)} :
            \E table_idx \in {cab_desc.directory_count + i} :
            \E fd \in {ParseFileDescriptor(hdr_data,
                                            FtBase + file_table[table_idx + 1])} :
            \E name \in {ReadString(fd.name_offset)} :
                IF FileDescriptorRaised(fd)
                THEN pc' = "failed" /\ exc' = "struct.error" /\ UNCHANGED files
                ELSE IF ~ name.ok
                THEN pc' = "failed" /\ exc' = "ValueError" /\ UNCHANGED files
                ELSE /\ files' = Append(files,
                            [name |-> name.s,
                             index |-> i,
                             directory_index |-> fd.directory_index,
                             directory |-> ResolveDirectory(fd.directory_index,
                                                            directories),
                             flags |-> fd.flags,
                             expanded_size |-> fd.expanded_size,
                             compressed_size |-> fd.compressed_size,
                             data_offset |-> fd.data_offset,
                             md5 |-> fd.md5])
                     /\ UNCHANGED <<pc, exc>>
    /\ UNCHANGED <<major_version, hdr_data, cab_data, setup_dir, include_loose, fs, common,
                   cab_desc, file_table, directories, file_groups, idx, counts,
                   cab_pos, total_written, md5_ctx, out_path, warnings, log>>

\* _parse_file_groups, one used slot: the offset list, the name, the range
ParseFileGroup(fg_off) ==
    LET cd_base == common.cab_descriptor_offset
        ol_base == cd_base + fg_off
        name_off == ReadU32(hdr_data, ol_base)
        desc_off == ReadU32(hdr_data, ol_base + 4)
        name == ReadCString(hdr_data, cd_base + name_off)
        first_file == ReadU32(hdr_data, cd_base + desc_off + 76)
        last_file == ReadU32(hdr_data, cd_base + desc_off + 80)
    IN  IF name_off = Fail \/ desc_off = Fail
        THEN [exc |-> "struct.error", group |-> None]
        ELSE IF ~ name.ok THEN [exc |-> "ValueError", group |-> None]
        ELSE IF first_file = Fail \/ last_file = Fail
        THEN [exc |-> "struct.error", group |-> None]
        ELSE [exc |-> "none",
              group |-> [name |-> name.s, first_file |-> first_file,
                         last_file |-> last_file]]

\* _parse_file_groups: the slots in order, zero slots skipped, the first
\* failing read ends it
RECURSIVE ParseFileGroups(_, _)
ParseFileGroups(i, groups) ==
    IF i > MAX_FILE_GROUP_COUNT THEN [exc |-> "none", groups |-> groups]
    ELSE IF cab_desc.file_group_offsets[i] = 0 THEN ParseFileGroups(i + 1, groups)
    ELSE LET g == ParseFileGroup(cab_desc.file_group_offsets[i])
         IN  IF g.exc # "none" THEN [exc |-> g.exc, groups |-> groups]
             ELSE ParseFileGroups(i + 1, Append(groups, g.group))

\* line 193: the constructor returns
CtorFileGroups ==
    /\ pc = "ctor_groups"
    /\ \E r \in {ParseFileGroups(1, <<>>)} :
           IF r.exc # "none"
           THEN pc' = "failed" /\ exc' = r.exc /\ UNCHANGED file_groups
           ELSE pc' = "constructed" /\ file_groups' = r.groups /\ UNCHANGED exc
    /\ UNCHANGED <<major_version, hdr_data, cab_data, setup_dir, include_loose, fs, common,
                   cab_desc, file_table, directories, files, idx, counts,
                   cab_pos, total_written, md5_ctx, out_path, warnings, log>>

-----------------------------------------------------------------------------
(* ISCabinet.extract_all                                                   *)

\* the invalid bit honoured only when the compressed bit is clear
InvalidUnlessCompressed(fd) ==
    (fd.flags \div FILE_INVALID) % 2 = 1 /\ (fd.flags \div FILE_COMPRESSED) % 2 = 0

\* FileDescriptor.is_compressed, is_invalid: a bit of flags
IsCompressed(fd) == (fd.flags \div FILE_COMPRESSED) % 2 = 1
IsInvalid(fd) == (fd.flags \div FILE_INVALID) % 2 = 1

\* lines 292-295
RelPath(fd) ==
    IF fd.directory # <<>>
    THEN Join(ReplaceBackslash(fd.directory), fd.name)
    ELSE fd.name

\* line 297
OutPath(fd) == Join(OutputDir, RelPath(fd))

\* a file counted twice
BumpTwice(c, field) == [c EXCEPT ![field] = @ + 2]

\* skipped += 1, extracted += 1, errors += 1, loose_copied += 1, ...
Bump(c, field) == [c EXCEPT ![field] = @ + 1]
Logged(l, fd, what) == Append(l, [file |-> fd.index, what |-> what])

\* lines 274-285: the output root, the counters, the data file opened
ExtractAllStart ==
    /\ pc = "constructed"
    /\ IF MakeDirsFails(fs, OutputDir)
       THEN /\ pc' = "aborted" /\ exc' = "OSError"
            /\ UNCHANGED <<fs, idx, counts, cab_pos>>
       ELSE /\ fs' = MakeDirs(fs, OutputDir)
            /\ counts' = NoCounts
            /\ cab_pos' = 0
            /\ idx' = 1
            /\ pc' = "loop"
            /\ UNCHANGED exc
    /\ UNCHANGED <<major_version, hdr_data, cab_data, setup_dir, include_loose, common,
                   cab_desc, file_table, directories, files, file_groups,
                   total_written, md5_ctx, out_path, warnings, log>>

InLoop == pc = "loop" /\ idx <= Len(files)

\* lines 287-289
SkipInvalid ==
    /\ InLoop
    /\ IsInvalid(files[idx])
    /\ counts' = Bump(counts, "skipped")
    /\ log' = Logged(log, files[idx], "skipped")
    /\ idx' = idx + 1
    /\ UNCHANGED <<major_version, hdr_data, cab_data, setup_dir, include_loose, fs, pc, exc,
                   common, cab_desc, file_table, directories, files,
                   file_groups, cab_pos, total_written, md5_ctx, out_path,
                   warnings>>

\* line 298 raising: os.makedirs stands outside every try, the exception
\* leaves extract_all
MakedirsRaises ==
    /\ InLoop
    /\ ~ IsInvalid(files[idx])
    /\ \E out \in {OutPath(files[idx])} :
       \E dir \in {Dirname(out)} :
           /\ MakeDirsFails(fs, dir)
           /\ out_path' = out
    /\ pc' = "aborted"
    /\ exc' = "OSError"
    /\ UNCHANGED <<major_version, hdr_data, cab_data, setup_dir, include_loose, fs, common,
                   cab_desc, file_table, directories, files, file_groups, idx,
                   counts, cab_pos, total_written, md5_ctx, warnings, log>>

\* the handle left where the previous file stopped
SeekSkipped(fd) == cab_pos

\* line 382: cab_file.seek(fd.data_offset)
SeekTo(fd) == fd.data_offset

\* lines 300-308, up to the open of line 388: seek, reset, open the output;
\* an open that raises is caught by the handler of line 306
BeginCompressed ==
    /\ InLoop
    /\ ~ IsInvalid(files[idx])
    /\ IsCompressed(files[idx])
    /\ \E out \in {OutPath(files[idx])} :
       \E dir \in {Dirname(out)} :
           /\ ~ MakeDirsFails(fs, dir)
           /\ \E made \in {MakeDirs(fs, dir)} :
              LET fd == files[idx]
              IN  /\ out_path' = out
                  /\ cab_pos' = SeekTo(fd)
                  /\ total_written' = 0
                  /\ md5_ctx' = <<>>
                  /\ IF OpenWriteFails(made, out)
                     THEN /\ fs' = made
                          /\ counts' = Bump(counts, "errors")
                          /\ log' = Logged(log, fd, "error")
                          /\ idx' = idx + 1
                          /\ UNCHANGED pc
                     ELSE /\ fs' = OpenWrite(made, out)
                          /\ pc' = "chunk"
                          /\ UNCHANGED <<counts, log, idx>>
    /\ UNCHANGED <<major_version, hdr_data, cab_data, setup_dir, include_loose, exc, common,
                   cab_desc, file_table, directories, files, file_groups,
                   warnings>>

\* cab_file.read(n) at the handle's position: what is left, at most n bytes
CabRead(pos, n) == Slice(cab_data, pos, pos + n)

\* the length prefix read high byte first
ChunkSizeBigEndian(size_bytes) == 256 * size_bytes[1] + size_bytes[2]

\* only the read of a length prefix moves the handle: after the read of a
\* chunk body the handle is back where the body starts
AfterReadPrefixOnly(pos, bytes) == IF Len(bytes) > 2 THEN pos ELSE pos + Len(bytes)

\* the handle's position after cab_file.read returned bytes (lines 391, 404)
AfterRead(pos, bytes) == pos + Len(bytes)

\* line 398: struct.unpack('<H', size_bytes)
ChunkSize(size_bytes) == size_bytes[1] + 256 * size_bytes[2]

\* a zero length not taken as the end
NeverEndOfChunks(chunk_size) == FALSE

\* line 400
EndOfChunks(chunk_size) == chunk_size = 0

\* the exception of _extract_compressed not caught: it leaves extract_all
ExtractRaisedUncaught(pos) ==
    /\ cab_pos' = pos
    /\ pc' = "aborted"
    /\ exc' = "IOError"
    /\ UNCHANGED <<counts, log, idx, fs, total_written, md5_ctx>>

\* an exception leaves _extract_compressed with the handle at pos: the handler
\* of lines 306-308 counts an error and the loop goes on to the next file
ExtractRaised(pos) ==
    /\ cab_pos' = pos
    /\ counts' = Bump(counts, "errors")
    /\ log' = Logged(log, files[idx], "error")
    /\ idx' = idx + 1
    /\ pc' = "loop"
    /\ UNCHANGED <<exc, fs, total_written, md5_ctx>>

\* the loop entered once more when the count has just reached expanded_size
MoreToWriteInclusive(written, fd) == written <= fd.expanded_size

\* line 389: the condition of the while loop
MoreToWrite(written, fd) == written < fd.expanded_size

\* lines 389-423, one pass of the loop body
ReadChunk ==
    /\ pc = "chunk"
    /\ MoreToWrite(total_written, files[idx])
    /\ \E size_bytes \in {CabRead(cab_pos, 2)} :
       \E pos1 \in {AfterRead(cab_pos, size_bytes)} :
           IF Len(size_bytes) < 2 THEN ExtractRaised(pos1)
           ELSE \E chunk_size \in {ChunkSize(size_bytes)} :
           IF EndOfChunks(chunk_size)
           THEN /\ cab_pos' = pos1
                /\ pc' = "verify"
                /\ UNCHANGED <<exc, fs, total_written, md5_ctx, counts, log, idx>>
           ELSE \E chunk_data \in {CabRead(pos1, chunk_size)} :
                \E pos2 \in {AfterRead(pos1, chunk_data)} :
           IF Len(chunk_data) < chunk_size THEN ExtractRaised(pos2)
           ELSE \E decompressed \in {Inflate(chunk_data)} :
           IF ~ decompressed.ok THEN ExtractRaised(pos2)
           ELSE /\ cab_pos' = pos2
                /\ fs' = WriteBytes(fs, out_path, decompressed.bytes)
                /\ md5_ctx' = md5_ctx \o decompressed.bytes
                /\ total_written' = total_written + Len(decompressed.bytes)
                /\ UNCHANGED <<exc, pc, counts, log, idx>>
    /\ UNCHANGED <<major_version, hdr_data, cab_data, setup_dir, include_loose, common,
                   cab_desc, file_table, directories, files, file_groups,
                   out_path, warnings>>

\* line 389 with the condition false: the loop ends
LoopExit ==
    /\ pc = "chunk"
    /\ ~ MoreToWrite(total_written, files[idx])
    /\ pc' = "verify"
    /\ UNCHANGED <<major_version, hdr_data, cab_data, setup_dir, include_loose, fs, exc,
                   common, cab_desc, file_table, directories, files,
                   file_groups, idx, counts, cab_pos, total_written, md5_ctx,
                   out_path, warnings, log>>

\* only a short output reported
SizeShortOnly(written, fd) == written < fd.expanded_size

\* line 426
SizeMismatch(written, fd) == written # fd.expanded_size

\* the stored checksum compared also when it is all zero
Md5ZeroCompared(msg, fd) == Digest(msg) # fd.md5

\* lines 431-433
Md5Mismatch(msg, fd) == fd.md5 # ZeroMd5 /\ Digest(msg) # fd.md5

\* lines 425-435, then 304-305: the warnings, and the file counts as extracted
VerifyCompressed ==
    /\ pc = "verify"
    /\ LET fd == files[idx]
       IN  /\ warnings' = warnings
                \cup (IF SizeMismatch(total_written, fd)
                      THEN {[file |-> fd.index, kind |-> "size"]} ELSE {})
                \cup (IF Md5Mismatch(md5_ctx, fd)
                      THEN {[file |-> fd.index, kind |-> "md5"]} ELSE {})
           /\ counts' = Bump(counts, "extracted")
           /\ log' = Logged(log, fd, "extracted")
    /\ idx' = idx + 1
    /\ pc' = "loop"
    /\ UNCHANGED <<major_version, hdr_data, cab_data, setup_dir, include_loose, fs, exc,
                   common, cab_desc, file_table, directories, files,
                   file_groups, cab_pos, total_written, md5_ctx, out_path>>

\* F applied to the value of v, v computed once
Bind(v, F(_)) == CHOOSE r \in {F(x) : x \in {v}} : TRUE

\* the index of the first entry that matches case-insensitively, 0 for none
FirstMatch(entries, target_name) ==
    LET hits == {i \in 1 .. Len(entries) : Lower(entries[i]) = target_name}
    IN  IF hits = {} THEN 0 ELSE CHOOSE i \in hits : \A j \in hits : i <= j

\* _find_loose_file
FindLooseFile(f, sd, fd) ==
    Bind(IF fd.directory # <<>>
         THEN Join(Join(sd, ReplaceBackslash(fd.directory)), fd.name)
         ELSE Join(sd, fd.name),
         LAMBDA candidate :
    Bind(Dirname(candidate), LAMBDA search_dir :
    Bind(ListDir(f, search_dir), LAMBDA entries :
    Bind(FirstMatch(entries, Lower(Basename(candidate))), LAMBDA hit :
        IF IsFile(f, candidate) THEN [found |-> TRUE, path |-> candidate]
        ELSE IF IsDir(f, search_dir) /\ hit # 0
        THEN [found |-> TRUE, path |-> Join(search_dir, entries[hit])]
        ELSE [found |-> FALSE, path |-> <<>>]))))

\* _copy_file: both files are opened, then the source is read to its end
CopyFile(f, src, dst) ==
    LET opened == OpenWrite(f, dst)
    IN  WriteBytes(opened, dst, FileData(opened, src))

\* lines 310-323
CopyLoose ==
    /\ InLoop
    /\ ~ IsInvalid(files[idx])
    /\ ~ IsCompressed(files[idx])
    /\ include_loose
    /\ \E out \in {OutPath(files[idx])} :
       \E dir \in {Dirname(out)} :
           /\ ~ MakeDirsFails(fs, dir)
           /\ out_path' = out
           /\ \E made \in {MakeDirs(fs, dir)} :
              \E src \in {FindLooseFile(made, setup_dir, files[idx])} :
              LET fd == files[idx]
              IN  IF src.found /\ IsFile(made, src.path)
                  THEN IF OpenWriteFails(made, out)
                       THEN /\ fs' = made
                            /\ counts' = Bump(counts, "errors")
                            /\ log' = Logged(log, fd, "error")
                       ELSE /\ fs' = CopyFile(made, src.path, out)
                            /\ counts' = Bump(counts, "loose_copied")
                            /\ log' = Logged(log, fd, "copied")
                  ELSE /\ fs' = made
                       /\ counts' = Bump(counts, "loose_missing")
                       /\ log' = Logged(log, fd, "missing")
    /\ idx' = idx + 1
    /\ UNCHANGED <<major_version, hdr_data, cab_data, setup_dir, include_loose, pc, exc,
                   common, cab_desc, file_table, directories, files,
                   file_groups, cab_pos, total_written, md5_ctx, warnings>>

\* lines 324-325
SkipLoose ==
    /\ InLoop
    /\ ~ IsInvalid(files[idx])
    /\ ~ IsCompressed(files[idx])
    /\ ~ include_loose
    /\ \E out \in {OutPath(files[idx])} :
       \E dir \in {Dirname(out)} :
           /\ ~ MakeDirsFails(fs, dir)
           /\ fs' = MakeDirs(fs, dir)
           /\ out_path' = out
    /\ counts' = Bump(counts, "skipped")
    /\ log' = Logged(log, files[idx], "skipped")
    /\ idx' = idx + 1
    /\ UNCHANGED <<major_version, hdr_data, cab_data, setup_dir, include_loose, pc, exc,
                   common, cab_desc, file_table, directories, files,
                   file_groups, cab_pos, total_written, md5_ctx, warnings>>

\* lines 327-336: the loop is through, the counts are printed
Summarize ==
    /\ pc = "loop"
    /\ idx > Len(files)
    /\ pc' = "summarized"
    /\ UNCHANGED <<major_version, hdr_data, cab_data, setup_dir, include_loose, fs, exc,
                   common, cab_desc, file_table, directories, files,
                   file_groups, idx, counts, cab_pos, total_written, md5_ctx,
                   out_path, warnings, log>>

-----------------------------------------------------------------------------

Next ==
    \/ CtorCommon
    \/ CtorCabDescriptor
    \/ CtorFileTable
    \/ CtorDirectories
    \/ CtorFile
    \/ CtorFileGroups
    \/ ExtractAllStart
    \/ SkipInvalid
    \/ MakedirsRaises
    \/ BeginCompressed
    \/ ReadChunk
    \/ LoopExit
    \/ VerifyCompressed
    \/ CopyLoose
    \/ SkipLoose
    \/ Summarize

Spec == Init /\ [][Next]_vars

\* the interpreter keeps running: a step that can be taken is taken
LiveSpec == LiveInit /\ [][Next]_vars /\ WF_vars(Next)

-----------------------------------------------------------------------------
(* Properties of extract_all, of the constructor and of the helpers       *)

\* the file of the step now taken in the loop of extract_all
ThisFile == files[idx]
InvalidBit(fd) == (fd.flags \div FILE_INVALID) % 2 = 1
CompressedBit(fd) == (fd.flags \div FILE_COMPRESSED) % 2 = 1
ThisOutDir == Dirname(OutPath(ThisFile))

\* C1: in extract_all, a file whose output directory cannot be created is a
\* caught failure: the error count rises by exactly one, the loop goes on to
\* the next file and the run does not end in an exception.
C1_ErrorIsolation ==
    [][(InLoop /\ ~ InvalidBit(ThisFile) /\ MakeDirsFails(fs, ThisOutDir))
       => /\ counts'.errors = counts.errors + 1
          /\ idx' = idx + 1
          /\ pc' = "loop"]_vars

\* the resolver's answer for the file of this step, after line 298
ThisLoose == FindLooseFile(MakeDirs(fs, ThisOutDir), setup_dir, ThisFile)
ThisLooseIsFile ==
    ThisLoose.found /\ IsFile(MakeDirs(fs, ThisOutDir), ThisLoose.path)

\* an invalid file: counted skipped, nothing read, nothing written
RoutedInvalid ==
    /\ counts' = Bump(counts, "skipped")
    /\ fs' = fs
    /\ cab_pos' = cab_pos
    /\ idx' = idx + 1
    /\ pc' = "loop"

\* a compressed file: the decompressor starts at data_offset with the output
\* file open, or the open raised and is counted
RoutedCompressed ==
    \/ /\ pc' = "chunk"
       /\ cab_pos' = ThisFile.data_offset
       /\ IsFile(fs', OutPath(ThisFile))
       /\ counts' = counts
    \/ /\ OpenWriteFails(MakeDirs(fs, ThisOutDir), OutPath(ThisFile))
       /\ counts' = Bump(counts, "errors")
       /\ pc' = "loop"

\* a loose file handed to the resolver
RoutedLoose ==
    IF ThisLooseIsFile
    THEN \/ /\ counts' = Bump(counts, "loose_copied")
            /\ FileData(fs', OutPath(ThisFile))
                   = FileData(MakeDirs(fs, ThisOutDir), ThisLoose.path)
         \/ /\ OpenWriteFails(MakeDirs(fs, ThisOutDir), OutPath(ThisFile))
            /\ counts' = Bump(counts, "errors")
    ELSE /\ counts' = Bump(counts, "loose_missing")
         /\ fs' = MakeDirs(fs, ThisOutDir)

\* C2 as stated: each file is routed by its flags alone: invalid first
\* (skipped, untouched), then compressed (decompressor), and every other file
\* goes to the resolver and is counted loose-copied or loose-missing.
C2_RoutingAsStated ==
    [][InLoop
       => IF InvalidBit(ThisFile) THEN RoutedInvalid
          ELSE IF CompressedBit(ThisFile) THEN RoutedCompressed
          ELSE /\ counts' \in {Bump(counts, "loose_copied"),
                               Bump(counts, "loose_missing")}
               /\ ThisLooseIsFile <=> counts' = Bump(counts, "loose_copied")]_vars

\* C2: each file is routed with this precedence: invalid first (skipped,
\* never decompressed or copied, no output entry, whatever the compressed
\* flag); otherwise the output directory is made, and when that raises the
\* run ends there with no count changed; otherwise a compressed file goes to
\* the decompressor; otherwise, with include_loose off, the file is counted
\* skipped and no output file is written; otherwise the resolver is asked:
\* loose-copied when it names a regular file and the copy succeeds, an error
\* when the copy raises, loose-missing otherwise.
C2_Routing ==
    [][InLoop
       => IF InvalidBit(ThisFile) THEN RoutedInvalid
          ELSE IF MakeDirsFails(fs, ThisOutDir)
          THEN pc' = "aborted" /\ counts' = counts /\ fs' = fs
          ELSE IF CompressedBit(ThisFile) THEN RoutedCompressed
          ELSE IF ~ include_loose
          THEN /\ counts' = Bump(counts, "skipped")
               /\ fs' = MakeDirs(fs, ThisOutDir)
          ELSE RoutedLoose]_vars

\* a file with both flags set has been counted skipped and has no output file
C2_Witness ==
    \E i \in 1 .. Len(log) :
        /\ log[i].what = "skipped"
        /\ files[i].flags = FILE_INVALID + FILE_COMPRESSED
        /\ ~ HasEntry(fs, OutPath(files[i]), "file")

-----------------------------------------------------------------------------

\* the constructor is past the common header
PastCommonHeader == pc # "ctor_common"
WrongMagic == Len(hdr_data) >= 4 /\ ReadU32(hdr_data, 0) # CAB_SIGNATURE

\* nothing of a catalog, nothing under the output root
NothingParsed ==
    /\ cab_desc = None
    /\ file_table = <<>>
    /\ directories = <<>>
    /\ files = <<>>
    /\ file_groups = <<>>
NoOutput ==
    \A i \in 1 .. Len(fs) :
        /\ fs[i].path # OutputDir
        /\ Dirname(fs[i].path) # OutputDir
        /\ fs[i].path[1] # SEP

\* C3 as stated: every header buffer whose first 4 bytes are not the magic
\* fails with a signature error, nothing parsed, nothing written.
C3_SignatureAsStated ==
    (WrongMagic /\ PastCommonHeader)
        => pc = "failed" /\ exc = "InvalidSignature" /\ NothingParsed /\ NoOutput

\* C3: a header buffer of at least 20 bytes whose first 4 bytes are not the
\* magic fails with the signature error; a shorter one fails in the unpack of
\* the 20-byte common header, whatever its first bytes; in both cases no
\* descriptor, table, directory, file or group is parsed and nothing is
\* written.
C3_Signature ==
    /\ (WrongMagic /\ Len(hdr_data) >= COMMON_HEADER_SIZE /\ PastCommonHeader)
           => pc = "failed" /\ exc = "InvalidSignature"
    /\ (Len(hdr_data) < COMMON_HEADER_SIZE /\ PastCommonHeader)
           => pc = "failed" /\ exc = "struct.error"
    /\ ((WrongMagic \/ Len(hdr_data) < COMMON_HEADER_SIZE) /\ PastCommonHeader)
           => NothingParsed /\ NoOutput

\* a whole common header with a wrong magic has been refused
C3_Witness ==
    /\ pc = "failed"
    /\ exc = "InvalidSignature"
    /\ WrongMagic
    /\ Len(hdr_data) > COMMON_HEADER_SIZE

-----------------------------------------------------------------------------

\* the ways of splitting a plaintext into at most MaxChunks chunks
RECURSIVE Splits(_)
Splits(n) ==
    IF n = 0 THEN {<<>>}
    ELSE Splits(n - 1)
         \cup {Append(q, p) : q \in {r \in Splits(n - 1) : Len(r) = n - 1},
                              p \in Payloads}

\* the plaintext of a split, and the split framed as the data file holds it
Plain(q) == Flatten(q)
Framed(q) == Flatten([k \in 1 .. Len(q) |-> Frame(q[k])])

\* the descriptor fd and the data file hold the split q of a plaintext
HoldsSplit(fd, q) ==
    /\ CompressedBit(fd)
    /\ ~ InvalidBit(fd)
    /\ fd.expanded_size = Len(Plain(q))
    /\ fd.md5 = Digest(Plain(q))
    /\ Slice(cab_data, fd.data_offset, fd.data_offset + Len(Framed(q)))
           = Framed(q)
    /\ ~ HasEntry(fs, OutPath(fd), "dir")

HasWarning(fd) == \E w \in warnings : w.file = fd.index

\* C4: round trip. Whenever the data file holds at data_offset the framed
\* chunks of a split of a plaintext, and expanded_size and the checksum are
\* the plaintext's, the file once processed counts as extracted, its output
\* file holds exactly the plaintext, and it has no warning.
C4_RoundTrip ==
    \A i \in 1 .. Len(log) :
        \A q \in Splits(MaxChunks) :
            HoldsSplit(files[i], q)
                => /\ log[i].what = "extracted"
                   /\ IsFile(fs, OutPath(files[i]))
                   /\ FileData(fs, OutPath(files[i])) = Plain(q)
                   /\ ~ HasWarning(files[i])

\* the plaintext "AAH" has come back from its two chunks "A" and "AH"
C4_Witness ==
    /\ Len(log) >= 1
    /\ log[1].what = "extracted"
    /\ HoldsSplit(files[1], <<<<65>>, <<65, 72>>>>)
    /\ FileData(fs, OutPath(files[1])) = <<65, 65, 72>>

-----------------------------------------------------------------------------

\* the chunk loop is about to read a length prefix
AtChunk == pc = "chunk" /\ total_written < ThisFile.expanded_size
NextTwo == Slice(cab_data, cab_pos, cab_pos + 2)
NextLength == NextTwo[1] + 256 * NextTwo[2]
NextBody == Slice(cab_data, cab_pos + 2, cab_pos + 2 + NextLength)

\* C5: a chunk length of 0 ends the chunk loop with no error, also with less
\* than expanded_size written: the two bytes are all that is read, nothing
\* more is read for the file afterwards, and the file is counted extracted.
C5_ZeroLengthEnds ==
    [][/\ (AtChunk /\ NextTwo = <<0, 0>>)
          => /\ pc' = "verify"
             /\ cab_pos' = cab_pos + 2
             /\ counts' = counts
             /\ exc' = exc
             /\ fs' = fs
       /\ pc = "verify"
          => /\ cab_pos' = cab_pos
             /\ counts' = Bump(counts, "extracted")
             /\ exc' = exc
             /\ idx' = idx + 1
             /\ pc' = "loop"]_vars

\* a file that stopped short at a zero length has been counted extracted
C5_Witness ==
    /\ pc = "loop"
    /\ Len(log) >= 1
    /\ log[Len(log)].what = "extracted"
    /\ total_written < files[Len(log)].expanded_size
    /\ cab_pos >= 2
    /\ Slice(cab_data, cab_pos - 2, cab_pos) = <<0, 0>>
    /\ counts.errors = 0

\* the data file ends in the length prefix or in the body, or the decoder
\* rejects the body
ChunkFails ==
    \/ Len(NextTwo) < 2
    \/ /\ Len(NextTwo) = 2
       /\ NextLength # 0
       /\ (Len(NextBody) < NextLength \/ ~ Inflate(NextBody).ok)

\* C6: a data file that ends before a length prefix or before a full chunk
\* body, with less than expanded_size produced, or a chunk the decoder
\* rejects, is one error for the file: caught, counted once, the file not
\* counted extracted, and the loop goes on with the next file.
C6_StreamErrorCounted ==
    [][(AtChunk /\ ChunkFails)
       => /\ counts' = Bump(counts, "errors")
          /\ log' = Append(log, [file |-> ThisFile.index, what |-> "error"])
          /\ idx' = idx + 1
          /\ pc' = "loop"
          /\ exc' = exc
          /\ warnings' = warnings]_vars

\* after a first good chunk the stream broke, and the next file was extracted
C6_Witness ==
    /\ Len(log) >= 2
    /\ log[1].what = "error"
    /\ log[2].what = "extracted"
    /\ counts.errors = 1
    /\ HasEntry(fs, OutPath(files[1]), "file")
    /\ FileData(fs, OutPath(files[1])) # <<>>

-----------------------------------------------------------------------------

Md5Warning(fd) == [file |-> fd.index, kind |-> "md5"]
SizeWarning(fd) == [file |-> fd.index, kind |-> "size"]
AllZero(md5) == Len(md5) = 16 /\ \A k \in 1 .. 16 : md5[k] = 0

\* C7: after the chunk loop has ended normally, a checksum warning is emitted
\* exactly when the stored checksum is not all zero and differs from the
\* digest of the bytes decompressed, which are the bytes written; an all-zero
\* checksum never warns; with or without the warning the file counts as
\* extracted and no error is raised.
C7_ChecksumWarning ==
    [][pc = "verify"
       => /\ md5_ctx = FileData(fs, out_path)
          /\ Md5Warning(ThisFile) \notin warnings
          /\ Md5Warning(ThisFile) \in warnings'
                 <=> (~ AllZero(ThisFile.md5)
                      /\ ThisFile.md5 # Digest(FileData(fs, out_path)))
          /\ counts' = Bump(counts, "extracted")
          /\ log' = Append(log, [file |-> ThisFile.index, what |-> "extracted"])
          /\ exc' = exc
          /\ pc' = "loop"]_vars

\* a file with a wrong stored checksum has its warning and counts as extracted
C7_Witness ==
    \E i \in 1 .. Len(log) :
        /\ Md5Warning(files[i]) \in warnings
        /\ SizeWarning(files[i]) \notin warnings
        /\ log[i].what = "extracted"
        /\ counts.errors = 0

\* C8: after the chunk loop has ended normally, a size warning is emitted
\* exactly when the number of bytes written differs from expanded_size, in
\* either direction; the file counts as extracted, no error is raised and the
\* run goes on.
C8_SizeWarning ==
    [][pc = "verify"
       => /\ total_written = Len(FileData(fs, out_path))
          /\ SizeWarning(ThisFile) \notin warnings
          /\ SizeWarning(ThisFile) \in warnings'
                 <=> Len(FileData(fs, out_path)) # ThisFile.expanded_size
          /\ counts' = Bump(counts, "extracted")
          /\ exc' = exc
          /\ idx' = idx + 1
          /\ pc' = "loop"]_vars

\* a last chunk went past expanded_size: warned, extracted, and the run is
\* through
C8_Witness ==
    /\ pc = "summarized"
    /\ \E i \in 1 .. Len(log) :
          /\ SizeWarning(files[i]) \in warnings
          /\ log[i].what = "extracted"
          /\ IsFile(fs, OutPath(files[i]))
          /\ Len(FileData(fs, OutPath(files[i]))) > files[i].expanded_size

-----------------------------------------------------------------------------

\* C9: a parsed file whose directory_index is below the number of parsed
\* directories has the directory of that index; one whose directory_index is
\* at or above it is parsed without error, has the empty directory, and its
\* output path is its bare name directly under the output root.
C9_DirectoryResolution ==
    \A i \in 1 .. Len(files) :
        LET fd == files[i]
        IN  IF fd.directory_index < Len(directories)
            THEN fd.directory = directories[fd.directory_index + 1]
            ELSE /\ fd.directory = <<>>
                 /\ OutPath(fd) = OutputDir \o <<SEP>> \o fd.name
                 /\ Dirname(OutPath(fd)) = OutputDir

-----------------------------------------------------------------------------

\* the candidate path of a descriptor: setup_root/directory/name
Candidate(fd) ==
    IF fd.directory # <<>>
    THEN Join(Join(setup_dir, ReplaceBackslash(fd.directory)), fd.name)
    ELSE Join(setup_dir, fd.name)

\* the entries of the candidate's parent directory that have the candidate's
\* name up to case, by their place in the listing
Siblings(f, fd) ==
    {i \in 1 .. Len(f) :
        /\ f[i].path # Dirname(Candidate(fd))
        /\ Dirname(f[i].path) = Dirname(Candidate(fd))
        /\ Lower(Basename(f[i].path)) = Lower(Basename(Candidate(fd)))}

\* the resolution as described: the candidate when it is a file, else the
\* first sibling of its name up to case, else not found
Described(f, fd) ==
    IF IsFile(f, Candidate(fd)) THEN [found |-> TRUE, path |-> Candidate(fd)]
    ELSE IF Siblings(f, fd) # {}
    THEN [found |-> TRUE,
          path |-> f[CHOOSE i \in Siblings(f, fd) :
                        \A j \in Siblings(f, fd) : i <= j].path]
    ELSE [found |-> FALSE, path |-> <<>>]

\* C10: _find_loose_file returns the candidate when that path exists,
\* otherwise the first entry of the candidate's parent directory with the
\* file's name up to case, and not-found when there is none; a path it
\* returns lies in the candidate's parent directory and its last component
\* is the descriptor's name up to case.
C10_LooseResolution ==
    (InLoop /\ ~ InvalidBit(ThisFile) /\ ~ CompressedBit(ThisFile)
        /\ include_loose /\ ~ MakeDirsFails(fs, ThisOutDir))
    => /\ ThisLoose = Described(MakeDirs(fs, ThisOutDir), ThisFile)
       /\ ThisLoose.found
              => /\ Dirname(ThisLoose.path) = Dirname(Candidate(ThisFile))
                 /\ Lower(Basename(ThisLoose.path)) = Lower(ThisFile.name)

-----------------------------------------------------------------------------

\* the constructor has returned
Constructed ==
    pc \in {"constructed", "loop", "chunk", "verify", "summarized", "aborted"}

\* the absolute offset table entry k (0-based) points at
EntryAt(k) == FtBase + file_table[k + 1]

\* the zero-terminated string at an absolute offset of the header
StringAt(abs) == ReadCString(hdr_data, abs).s

\* C11: after every successful header parse the file table has exactly
\* directory_count + file_count entries, the directory list has exactly
\* directory_count names, read through table entries 0 .. directory_count-1,
\* and the file list has exactly file_count records, read through table
\* entries directory_count .. directory_count+file_count-1, with
\* files[i].index = i.
C11_TableCounts ==
    Constructed
    => LET dc == cab_desc.directory_count
           fc == cab_desc.file_count
       IN  /\ dc = ReadU32(hdr_data, common.cab_descriptor_offset + 28)
           /\ fc = ReadU32(hdr_data, common.cab_descriptor_offset + 40)
           /\ Len(file_table) = dc + fc
           /\ \A k \in 0 .. dc + fc - 1 :
                  file_table[k + 1] = ReadU32(hdr_data, FtBase + 4 * k)
           /\ Len(directories) = dc
           /\ \A i \in 0 .. dc - 1 : directories[i + 1] = StringAt(EntryAt(i))
           /\ Len(files) = fc
           /\ \A i \in 0 .. fc - 1 :
                  LET rec == EntryAt(dc + i)
                  IN  /\ files[i + 1].index = i
                      /\ files[i + 1].name
                             = StringAt(FtBase + ReadU32(hdr_data, rec))
                      /\ files[i + 1].directory_index = ReadU16(hdr_data, rec + 4)
                      /\ files[i + 1].flags = ReadU16(hdr_data, rec + 8)
                      /\ files[i + 1].expanded_size = ReadU32(hdr_data, rec + 10)
                      /\ files[i + 1].data_offset = ReadU32(hdr_data, rec + 38)

\* a header with MaxDirs directories and MaxFiles files has been parsed
C11_Witness ==
    /\ pc = "constructed"
    /\ cab_desc.directory_count = MaxDirs
    /\ cab_desc.file_count = MaxFiles
    /\ Len(file_table) = MaxDirs + MaxFiles
    /\ files[MaxFiles].index = MaxFiles - 1

-----------------------------------------------------------------------------

\* C12: a header read past the end of the buffer fails the parse: every file
\* record of a catalog lies with all its 58 bytes, the 16-byte checksum at
\* +0x2A included, inside the header buffer, and no record of a catalog has
\* a shortened checksum.
C12_RecordsInBounds ==
    Constructed
    => \A i \in 0 .. Len(files) - 1 :
           /\ EntryAt(cab_desc.directory_count + i) + SIZE_V5 <= Len(hdr_data)
           /\ Len(files[i + 1].md5) = 16

-----------------------------------------------------------------------------

\* line 148 has run: the common header was read whole and its signature is
\* the magic
VersionReported ==
    /\ pc # "ctor_common"
    /\ Len(hdr_data) >= COMMON_HEADER_SIZE
    /\ ReadU32(hdr_data, 0) = CAB_SIGNATURE

\* the version field is bytes 4..7 of the header, low byte first: the upper
\* 16 bits are bytes 6 and 7, the lower 16 bits are bytes 4 and 5
TopNibbleOfUpperHalf == hdr_data[8] \div 16
TopNibbleOfLowerHalf == hdr_data[6] \div 16

\* C13 as stated: the major version is the top 4 bits of the upper 16 bits
\* of the version field.
C13_MajorVersionAsStated ==
    VersionReported => major_version = TopNibbleOfUpperHalf

\* C13: the major version is bits 12..15 of the version field,
\* (version >> 12) & 0xF: the top 4 bits of the lower 16 bits.
C13_MajorVersion ==
    VersionReported => major_version = TopNibbleOfLowerHalf

\* version 0x50001000 has been reported as major version 1
C13_Witness ==
    /\ pc = "constructed"
    /\ common.version = 1342181376
    /\ major_version = 1
    /\ TopNibbleOfUpperHalf = 5

-----------------------------------------------------------------------------

\* C14: the data file is read only while less than expanded_size has been
\* decompressed: once the count has reached or passed expanded_size the loop
\* ends and the handle stays where it is for the rest of the file's
\* handling; with expanded_size = 0 nothing is read at all, the output file
\* is empty and there is no size warning.
C14_ReadOnlyWhileShort ==
    [][/\ (pc = "chunk" /\ cab_pos' # cab_pos)
          => total_written < ThisFile.expanded_size
       /\ (pc = "chunk" /\ total_written >= ThisFile.expanded_size)
          => cab_pos' = cab_pos /\ fs' = fs /\ pc' = "verify"
       /\ pc = "verify" => cab_pos' = cab_pos /\ fs' = fs
       /\ (pc = "verify" /\ ThisFile.expanded_size = 0)
          => /\ cab_pos = ThisFile.data_offset
             /\ IsFile(fs, out_path)
             /\ FileData(fs, out_path) = <<>>
             /\ SizeWarning(ThisFile) \notin warnings']_vars

\* a file of expanded_size 0 has been extracted empty, the data file not
\* empty, the handle still at its data_offset
C14_Witness ==
    /\ pc = "loop"
    /\ idx = 2
    /\ Len(log) = 1
    /\ log[1].what = "extracted"
    /\ files[1].expanded_size = 0
    /\ cab_data # <<>>
    /\ cab_pos = files[1].data_offset
    /\ FileData(fs, OutPath(files[1])) = <<>>
    /\ warnings = {}

-----------------------------------------------------------------------------

\* the states of a run of extract_all: Idle, Scanning, the handling of one
\* file (a compressed file takes several steps), Summarized
Idle == pc = "constructed"
Scanning == pc = "loop"
ExtractingCompressed == pc \in {"chunk", "verify"}
Summarized == pc = "summarized"

\* C15: a run of extract_all goes Idle -> Scanning -> one handling per file
\* -> Summarized and nowhere else: the files are handled in increasing
\* catalog index, each once and to its end before the next starts, and
\* Summarized is entered only with every file of the catalog handled.
C15_StateMachine ==
    [][(Idle \/ Scanning \/ ExtractingCompressed)
       => /\ Scanning' \/ ExtractingCompressed' \/ Summarized'
          /\ idx' \in {idx, idx + 1}
          /\ ExtractingCompressed' => idx' = idx
          /\ Len(log') = idx' - 1
          /\ \A i \in 1 .. Len(log') : log'[i].file = i - 1
          /\ Summarized' => Len(log) = Len(files)]_vars

-----------------------------------------------------------------------------

\* What extracting fd gives when nothing was processed before it: a function
\* of the descriptor and of the data file only.  From position pos with the
\* bytes out written so far: [ok, bytes, pos].
RECURSIVE AloneFrom(_, _, _)
AloneFrom(fd, pos, out) ==
    LET two == Slice(cab_data, pos, pos + 2)
        length == two[1] + 256 * two[2]
        body == Slice(cab_data, pos + 2, pos + 2 + length)
    IN  IF Len(out) >= fd.expanded_size
        THEN [ok |-> TRUE, bytes |-> out, pos |-> pos]
        ELSE IF Len(two) < 2
        THEN [ok |-> FALSE, bytes |-> out, pos |-> pos + Len(two)]
        ELSE IF length = 0
        THEN [ok |-> TRUE, bytes |-> out, pos |-> pos + 2]
        ELSE IF Len(body) < length \/ ~ Inflate(body).ok
        THEN [ok |-> FALSE, bytes |-> out, pos |-> pos + 2 + Len(body)]
        ELSE AloneFrom(fd, pos + 2 + length, out \o Inflate(body).bytes)

Alone(fd) == AloneFrom(fd, fd.data_offset, <<>>)

\* the warnings extracting fd alone gives
AloneWarnings(fd) ==
    IF ~ Alone(fd).ok THEN {}
    ELSE (IF Len(Alone(fd).bytes) # fd.expanded_size
          THEN {SizeWarning(fd)} ELSE {})
         \cup (IF ~ AllZero(fd.md5) /\ fd.md5 # Digest(Alone(fd).bytes)
               THEN {Md5Warning(fd)} ELSE {})

\* C16 as stated: whether a compressed file is extracted or fails depends on
\* its descriptor and on the data file only, not on the files before it.
C16_IndependentAsStated ==
    \A i \in 1 .. Len(log) :
        (CompressedBit(files[i]) /\ ~ InvalidBit(files[i]))
            => (log[i].what = "extracted" <=> Alone(files[i]).ok)

\* C16: once the output file of a compressed file is open, the bytes
\* written, the warnings and the success or failure of its extraction are
\* those of extracting it alone: they depend on its descriptor and on the
\* data file, not on the files before it nor on where the handle was left.
C16_Independent ==
    [][(ExtractingCompressed /\ idx' = idx + 1)
       => /\ log'[idx].what = (IF Alone(ThisFile).ok THEN "extracted" ELSE "error")
          /\ FileData(fs', out_path) = Alone(ThisFile).bytes
          /\ cab_pos' = Alone(ThisFile).pos
          /\ warnings' \ warnings = AloneWarnings(ThisFile)
          /\ warnings \cap {SizeWarning(ThisFile), Md5Warning(ThisFile)} = {}]_vars

\* the first file broke off inside the data file, past the second file's
\* data_offset, and the second file came out as it does alone
C16_Witness ==
    /\ Len(log) >= 2
    /\ log[1].what = "error"
    /\ Alone(files[1]).pos > files[2].data_offset
    /\ CompressedBit(files[2])
    /\ log[2].what = "extracted"
    /\ FileData(fs, OutPath(files[2])) = Alone(files[2]).bytes
    /\ Alone(files[2]).bytes # <<>>

-----------------------------------------------------------------------------

Counters == {"extracted", "loose_copied", "loose_missing", "skipped", "errors"}
CounterSum(c) ==
    c.extracted + c.loose_copied + c.loose_missing + c.skipped + c.errors
OneRaised(c, d) ==
    \E f \in Counters : d[f] = c[f] + 1 /\ \A g \in Counters \ {f} : d[g] = c[g]

\* the loop of extract_all is running or has ended
InExtractAll == Scanning \/ ExtractingCompressed \/ Summarized \/ idx > 0

\* C17: counter partition. At every point of a run of extract_all the five
\* counters add up to the number of files handled so far; handling a file
\* raises exactly one of them by exactly one and nothing else changes them;
\* at the summary the sum is the number of files of the catalog.
C17_CounterPartition ==
    /\ [](InExtractAll
            => /\ CounterSum(counts) = Len(log)
               /\ Scanning => CounterSum(counts) = idx - 1
               /\ Summarized => CounterSum(counts) = Len(files))
    /\ [][InExtractAll
            => /\ idx' = idx + 1 => OneRaised(counts, counts')
               /\ idx' = idx => counts' = counts]_vars

\* a run with include_loose off is through: the loose file under skipped,
\* the other file extracted
C17_Witness ==
    /\ Summarized
    /\ ~ include_loose
    /\ Len(files) = MaxFiles
    /\ \E i \in 1 .. Len(files) : files[i].flags = 0
    /\ counts.skipped = 1
    /\ CounterSum(counts) = MaxFiles

-----------------------------------------------------------------------------

\* the run is over: the constructor raised, extract_all raised, or the
\* summary was printed
Terminated == pc \in {"failed", "aborted", "summarized"}

\* C18: _extract_compressed terminates, normally or with an error: a pass of
\* the chunk loop after which the loop goes on has consumed at least 3 bytes
\* of the data file, so the loop is left also when chunks decompress to
\* nothing; and every run of extract_all comes to its end.
C18_Terminates ==
    /\ [][(pc = "chunk" /\ pc' = "chunk")
             => /\ cab_pos' >= cab_pos + 3
                /\ cab_pos' <= Len(cab_data)]_vars
    /\ (pc = "chunk") ~> (pc # "chunk")
    /\ <>Terminated

\* chunks that decompress to nothing have been read to the end of the data
\* file, the file ended as an error and the run came to its summary
C18_Witness ==
    /\ Summarized
    /\ log[1].what = "error"
    /\ files[1].expanded_size > 0
    /\ IsFile(fs, OutPath(files[1]))
    /\ FileData(fs, OutPath(files[1])) = <<>>
    /\ cab_data = Frame(<<>>) \o Frame(<<>>)

=============================================================================
